---- MODULE Spec2Model ----
(***************************************************************************)
(* Model of the blog newsletter generator (src/src/*.py): the archive of   *)
(* page snapshots kept by BlogScraper, the article extractor and version   *)
(* comparator of DiffAnalyzer, and the orchestrating loop of main.         *)
(*                                                                         *)
(* Python values are encoded as follows.                                   *)
(*   - a str is a TLA+ string;                                             *)
(*   - the result of dict.get(k) is None or Some(v); an article dict is a  *)
(*     record whose four fields hold None when the key is missing;         *)
(*   - a parsed page (BeautifulSoup tree) is the sequence of its nodes in  *)
(*     document order, each node naming its parent (0 is the body);        *)
(*   - a date string YYYY-MM-DD is a positive integer (the lexicographic   *)
(*     order of such strings is the order of the days).                    *)
(***************************************************************************)
EXTENDS Integers, Sequences, FiniteSets, TLC

(***************************************************************************)
(* Optional values                                                         *)
(***************************************************************************)
None == [none |-> TRUE]

Some(v) == [some |-> v]

\* the element of a one-element set; The({F(x) : x \in {e}}) is F(e) with e
\* evaluated once
The(S) == CHOOSE x \in S : TRUE

\* dict.get(k, default) on an optional field
GetOr(o, default) == IF o = None THEN default ELSE o.some

(***************************************************************************)
(* Strings                                                                 *)
(***************************************************************************)
Whitespace == {" ", "\n", "\t"}

\* does position i of s hold a character other than whitespace
Inked(s, i) == SubSeq(s, i, i) \notin Whitespace

\* str.strip(): s from its first to its last such character
Strip(s) ==
  IF \A i \in 1..Len(s) : ~Inked(s, i) THEN ""
  ELSE SubSeq(s,
         CHOOSE i \in 1..Len(s) :
           Inked(s, i) /\ \A j \in 1..(i - 1) : ~Inked(s, j),
         CHOOSE i \in 1..Len(s) :
           Inked(s, i) /\ \A j \in (i + 1)..Len(s) : ~Inked(s, j))

\* sub in s
IsSubstr(sub, s) ==
  \E i \in 1..(Len(s) - Len(sub) + 1) : SubSeq(s, i, i + Len(sub) - 1) = sub

\* sep.join(parts)
RECURSIVE Join(_, _)
Join(sep, parts) ==
  IF Len(parts) = 0 THEN ""
  ELSE IF Len(parts) = 1 THEN parts[1]
  ELSE parts[1] \o sep \o Join(sep, Tail(parts))

\* s * n
RECURSIVE Rep(_, _)
Rep(s, n) == IF n = 0 THEN "" ELSE s \o Rep(s, n - 1)

(***************************************************************************)
(* Sets of positions                                                       *)
(***************************************************************************)
Min(S) == CHOOSE x \in S : \A y \in S : x <= y

\* the first position of S, 0 when there is none (find / select_one -> None)
First(S) == IF S = {} THEN 0 ELSE Min(S)

\* the positions of S in increasing (document) order
SortedSeq(S) ==
  [i \in 1..Cardinality(S) |->
     CHOOSE x \in S : Cardinality({y \in S : y < x}) = i - 1]

(***************************************************************************)
(* The parsed page                                                         *)
(***************************************************************************)
TextTag == "#text"

\* an element node
Elem(tag, cls, parent) ==
  [tag |-> tag, cls |-> cls, href |-> None, datetime |-> None,
   text |-> "", parent |-> parent]

\* a text node
Text(s, parent) ==
  [tag |-> TextTag, cls |-> <<>>, href |-> None, datetime |-> None,
   text |-> s, parent |-> parent]

\* an <a> element, href being None or Some(target)
Link(href, parent) == [Elem("a", <<>>, parent) EXCEPT !.href = href]

\* a <time> element, datetime being None or Some(value)
TimeEl(datetime, parent) == [Elem("time", <<>>, parent) EXCEPT !.datetime = datetime]

IsTag(d, i) == d[i].tag # TextTag

RECURSIVE Ancestors(_, _)
Ancestors(d, i) ==
  IF d[i].parent = 0 THEN {} ELSE {d[i].parent} \cup Ancestors(d, d[i].parent)

\* element.descendants (positions, tags and strings)
Descendants(d, e) == {j \in (e + 1)..Len(d) : e \in Ancestors(d, j)}

Children(d, e) == {j \in (e + 1)..Len(d) : d[j].parent = e}

\* element.next_elements: every node after e in document order
NextElements(d, e) == (e + 1)..Len(d)

\* element.next_siblings
NextSiblings(d, e) == {j \in (e + 1)..Len(d) : d[j].parent = d[e].parent}

RECURSIVE ConcatText(_, _)
ConcatText(d, idxs) ==
  IF Len(idxs) = 0 THEN "" ELSE d[Head(idxs)].text \o ConcatText(d, Tail(idxs))

\* element.get_text(): all strings below the element, concatenated
GetText(d, e) ==
  ConcatText(d, SortedSeq({j \in {e} \cup Descendants(d, e) : ~IsTag(d, j)}))

\* element.string: the single string below the element, None otherwise
RECURSIVE StringOf(_, _)
StringOf(d, e) ==
  IF ~IsTag(d, e) THEN Some(d[e].text)
  ELSE IF Cardinality(Children(d, e)) = 1
       THEN StringOf(d, Min(Children(d, e)))
       ELSE None

(***************************************************************************)
(* CSS selectors                                                           *)
(***************************************************************************)
SelTag(t) == [kind |-> "tag", v |-> t]

SelClass(c) == [kind |-> "class", v |-> c]

SelClassSub(s) == [kind |-> "classsub", v |-> s]

SelAttr(a) == [kind |-> "attr", v |-> a]

\* does the element node n match the simple selector sel
Matches(n, sel) ==
  /\ n.tag # TextTag
  /\ CASE sel.kind = "tag" -> n.tag = sel.v
       [] sel.kind = "class" -> \E k \in 1..Len(n.cls) : n.cls[k] = sel.v
       [] sel.kind = "classsub" -> Len(n.cls) > 0 /\ IsSubstr(sel.v, Join(" ", n.cls))
       [] sel.kind = "attr" -> sel.v = "datetime" /\ n.datetime # None

\* soup.select(group): every element of the page matching one of the group
SelectAll(d, group) == {j \in 1..Len(d) : \E s \in group : Matches(d[j], s)}

\* element.select_one(group): first matching descendant, 0 for None
SelectOne(d, e, group) ==
  First({j \in Descendants(d, e) : \E s \in group : Matches(d[j], s)})

\* element.find(tag): first descendant with that tag, 0 for None
Find(d, e, tag) == First({j \in Descendants(d, e) : d[j].tag = tag})

\* element.find_next(tag): first later element with that tag, 0 for None
FindNext(d, e, tag) == First({j \in NextElements(d, e) : d[j].tag = tag})

(***************************************************************************)
(* DiffAnalyzer: the article extractor                                     *)
(***************************************************************************)
\* an article dict; a missing key is None
Article(title, url, date, content) ==
  [title |-> title, url |-> url, date |-> date, content |-> content]

article_selectors ==
  << SelTag("article"), SelClass("post"), SelClass("entry"),
     SelClass("blog-post"), SelClass("blog-entry"),
     SelClassSub("article"), SelClassSub("post"), SelClassSub("entry"),
     SelClass("card"), SelClass("item"), SelClass("news-item") >>

TitleSel ==
  { SelTag("h1"), SelTag("h2"), SelTag("h3"), SelTag("h4"),
    SelClass("title"), SelClass("entry-title") }

DateSel ==
  { SelClass("date"), SelClass("time"), SelClass("entry-date"),
    SelClass("published"), SelTag("time"), SelAttr("datetime") }

ContentSel ==
  { SelClass("content"), SelClass("entry-content"), SelClass("description"),
    SelClass("summary"), SelTag("p") }

HeadingTags == {"h1", "h2", "h3"}

\* a slip: the heading tags of the fallback scan used as stop tags
StopTags_Scanned == {"h1", "h2", "h3"}

StopTags == {"h1", "h2", "h3", "h4"}

MinTitleLen == 10

MaxTitleLen == 200

\* the text of a date element: its datetime attribute, else its text
DateOf(d, de) ==
  IF de = 0 THEN None
  ELSE IF d[de].datetime # None THEN d[de].datetime
  ELSE Some(Strip(GetText(d, de)))

\* [p.get_text().strip() for p in ps]
StrippedTexts(d, ps) == [k \in 1..Len(ps) |-> Strip(GetText(d, ps[k]))]

\* element.find('a', string=True): first link whose .string is not None
FindLinkWithString(d, e) ==
  First({j \in Descendants(d, e) : d[j].tag = "a" /\ StringOf(d, j) # None})

\* _extract_article_data(element)
ExtractArticleData(d, e) ==
  LET title_elem == SelectOne(d, e, TitleSel)
      tlink == IF title_elem = 0 THEN 0 ELSE Find(d, title_elem, "a")
      title1 == IF title_elem = 0 THEN None
                ELSE Some(Strip(GetText(d, title_elem)))
      url1 == IF tlink # 0 THEN d[tlink].href ELSE None
      link == IF title1 = None THEN FindLinkWithString(d, e) ELSE 0
      title == IF title1 # None THEN title1
               ELSE IF link # 0 THEN Some(Strip(GetText(d, link)))
               ELSE None
      url == IF title1 # None THEN url1
             ELSE IF link # 0 THEN d[link].href
             ELSE None
      date == DateOf(d, SelectOne(d, e, DateSel))
      content_elem == SelectOne(d, e, ContentSel)
      content1 ==
        IF content_elem # 0 THEN Some(Strip(GetText(d, content_elem)))
        ELSE IF Find(d, e, "p") # 0
             THEN Some(Join("\n", StrippedTexts(d,
                    SortedSeq({j \in Descendants(d, e) : d[j].tag = "p"}))))
             ELSE None
      next_p == IF title_elem = 0 THEN 0 ELSE FindNext(d, title_elem, "p")
      content == IF title # None /\ content1 = None /\ next_p # 0
                 THEN Some(Strip(GetText(d, next_p)))
                 ELSE content1
  IN Article(title, url, date, content)

\* a slip: 'title' in article, an empty title kept
HasTitle_KeyOnly(a) == a.title # None

\* article and article.get('title')
HasTitle(a) == a.title # None /\ a.title.some # ""

\* a slip: the two length limits themselves rejected
IsLikelyArticleTitle_Exclusive(d, h) ==
  LET text == Strip(GetText(d, h))
  IN IF Len(text) <= MinTitleLen \/ Len(text) >= MaxTitleLen THEN FALSE
     ELSE IF Find(d, h, "a") # 0 THEN TRUE
     ELSE FindNext(d, h, "p") # 0

\* _is_likely_article_title(heading)
IsLikelyArticleTitle(d, h) ==
  LET text == Strip(GetText(d, h))
  IN IF Len(text) < MinTitleLen \/ Len(text) > MaxTitleLen THEN FALSE
     ELSE IF Find(d, h, "a") # 0 THEN TRUE
     ELSE FindNext(d, h, "p") # 0

\* the while loop of _extract_article_from_heading over sibs, the
\* following siblings of the heading in order
RECURSIVE CollectParagraphs(_, _)
CollectParagraphs(d, sibs) ==
  IF Len(sibs) = 0 THEN <<>>
  ELSE IF d[Head(sibs)].tag = "p"
       THEN <<Strip(GetText(d, Head(sibs)))>> \o CollectParagraphs(d, Tail(sibs))
  ELSE IF d[Head(sibs)].tag \in StopTags THEN <<>>
  ELSE CollectParagraphs(d, Tail(sibs))

\* _extract_article_from_heading(heading)
ExtractArticleFromHeading(d, h) ==
  LET link == Find(d, h, "a")
      url == IF link # 0 THEN d[link].href ELSE None
      date_elem == FindNext(d, h, "time")
      paragraphs == CollectParagraphs(d, SortedSeq(NextSiblings(d, h)))
      content == IF Len(paragraphs) > 0 THEN Some(Join("\n", paragraphs)) ELSE None
  IN Article(Some(Strip(GetText(d, h))), url, DateOf(d, date_elem), content)

\* the articles of seq that satisfy the caller's title test, in order
RECURSIVE Titled(_)
Titled(seq) ==
  IF Len(seq) = 0 THEN <<>>
  ELSE (IF HasTitle(Head(seq)) THEN <<Head(seq)>> ELSE <<>>) \o Titled(Tail(seq))

\* the articles one selector contributes
FromSelector(d, sel) ==
  LET els == SortedSeq(SelectAll(d, {sel}))
  IN Titled([k \in 1..Len(els) |-> ExtractArticleData(d, els[k])])

\* the selector loop of _extract_articles, from selector k on
RECURSIVE StructuralPass(_, _)
\* a slip: no break, the articles of every selector accumulated
StructuralPass_Merge(d, k) ==
  IF k > Len(article_selectors) THEN <<>>
  ELSE FromSelector(d, article_selectors[k]) \o StructuralPass(d, k + 1)

StructuralPass(d, k) ==
  IF k > Len(article_selectors) THEN <<>>
  ELSE IF Len(FromSelector(d, article_selectors[k])) > 0
       THEN FromSelector(d, article_selectors[k])
       ELSE StructuralPass(d, k + 1)

\* the selectors that loop evaluates, from selector k on, up to its break
RECURSIVE SelectorsTried(_, _)
SelectorsTried(d, k) ==
  IF k > Len(article_selectors) THEN <<>>
  ELSE <<k>> \o (IF Len(FromSelector(d, article_selectors[k])) > 0 THEN <<>>
                 ELSE SelectorsTried(d, k + 1))

\* the heuristic branch of _extract_articles
HeadingFallback(d) ==
  LET hs == SortedSeq({j \in 1..Len(d) :
                         d[j].tag \in HeadingTags /\ IsLikelyArticleTitle(d, j)})
  IN Titled([k \in 1..Len(hs) |-> ExtractArticleFromHeading(d, hs[k])])

\* _extract_articles(html_content)
ExtractArticles(d) ==
  IF Len(StructuralPass(d, 1)) > 0 THEN StructuralPass(d, 1)
  ELSE HeadingFallback(d)

(***************************************************************************)
(* Pages                                                                   *)
(***************************************************************************)
\* page fragments: each is a sequence of nodes, parents relative to it
FragArticleX ==
  << Elem("article", <<>>, 0), Elem("h2", <<>>, 1), Link(Some("/a"), 2),
     Text("Alpha post", 3), Elem("p", <<>>, 1), Text(" body x ", 5) >>

FragArticleY ==
  << Elem("article", <<>>, 0), Elem("h2", <<>>, 1), Link(Some("/a"), 2),
     Text("Alpha post", 3), Elem("p", <<>>, 1), Text("body y\n", 5) >>

FragPostBlank ==
  << Elem("div", <<"post">>, 0), Elem("h2", <<>>, 1), Text("  ", 2),
     Link(Some("/b"), 1), Text("Beta", 4) >>

FragCardLink ==
  << Elem("div", <<"card">>, 0), Link(Some("/c"), 1), Text("Gamma", 2),
     Elem("p", <<>>, 1), Text("first", 4),
     Elem("div", <<"summary">>, 1), Text("sum", 6) >>

FragItemBlankLink ==
  << Elem("li", <<"news-item">>, 0), Link(None, 1), Text(" ", 2) >>

FragHeading ==
  << Elem("h2", <<>>, 0), Text(" Heading of a section ", 1) >>

FragHeadLink ==
  << Elem("h1", <<>>, 0), Link(Some(""), 1), Text("Linked heading", 2) >>

FragShort == << Elem("h3", <<>>, 0), Text("short", 1) >>

FragSub == << Elem("h4", <<>>, 0), Text("sub", 1) >>

FragPara == << Elem("p", <<>>, 0), Text("para one\n", 1) >>

FragPostTitle ==
  << Elem("div", <<"blog">>, 0), Elem("h2", <<"post-title">>, 1),
     Text("Nested post title", 2), TimeEl(Some("2024-01-01"), 1),
     Text("Jan 1", 4) >>

FragPostcard ==
  << Elem("div", <<"postcard">>, 0), Elem("h3", <<>>, 1), Text("Delta", 2) >>

Fragments ==
  { FragArticleX, FragArticleY, FragPostBlank, FragCardLink,
    FragItemBlankLink, FragHeading, FragHeadLink, FragShort, FragSub,
    FragPara, FragPostTitle, FragPostcard }

\* the page d followed by the fragment f
AddFragment(d, f) ==
  d \o [i \in 1..Len(f) |->
          [f[i] EXCEPT !.parent = IF @ = 0 THEN 0 ELSE @ + Len(d)]]

\* the pages made of at most n fragments
RECURSIVE PagesOf(_)
PagesOf(n) ==
  IF n = 0 THEN {<<>>}
  ELSE PagesOf(n - 1) \cup
       {AddFragment(d, f) : d \in PagesOf(n - 1), f \in Fragments}

\* headings whose text is as long as the limits of a title, or one off
FragHead9 ==
  << Elem("h2", <<>>, 0), Link(Some("/n"), 1), Text("Nine char", 2) >>

FragHead10 ==
  << Elem("h1", <<>>, 0), Link(None, 1), Text(" Ten chars!\n", 2) >>

FragHead200 ==
  << Elem("h3", <<>>, 0), Link(Some("/l"), 1),
     Text(" " \o Rep("abcdefghij", 20) \o " ", 2) >>

FragHead201 ==
  << Elem("h2", <<>>, 0), Text(Rep("abcdefghij", 20) \o "k", 1),
     Elem("p", <<>>, 0), Text("after", 3) >>

FragSubLong == << Elem("h4", <<>>, 0), Text("Subsection heading", 1) >>

HeadingFragments ==
  { FragHead9, FragHead10, FragHead200, FragHead201, FragSubLong,
    FragHeading, FragHeadLink, FragPara, FragArticleX }

\* the pages made of at most n of these fragments
RECURSIVE HeadingPagesOf(_)
HeadingPagesOf(n) ==
  IF n = 0 THEN {<<>>}
  ELSE HeadingPagesOf(n - 1) \cup
       {AddFragment(d, f) : d \in HeadingPagesOf(n - 1), f \in HeadingFragments}

\* the pages a blog may serve when it is scraped
PageEmpty == FragPara

FragArticleZ ==
  << Elem("article", <<>>, 0), Elem("h3", <<>>, 1), Text("Zeta post", 2),
     Elem("p", <<>>, 1), Text("body z", 4) >>

PageOne == AddFragment(FragArticleX, FragArticleZ)

PageTwo == FragArticleY

SitePages == {PageEmpty, PageOne, PageTwo}

\* _extract_articles on the pages the blogs serve, evaluated once
ExtractedSitePages == [p \in SitePages |-> ExtractArticles(p)]

\* _extract_articles(html_content), looked up when the page is one of those
ExtractArticlesOf(page) ==
  IF page \in SitePages THEN ExtractedSitePages[page] ELSE ExtractArticles(page)

(***************************************************************************)
(* DiffAnalyzer: the version comparator                                    *)
(***************************************************************************)
Max(S) == CHOOSE x \in S : \A y \in S : x >= y

Range(seq) == {seq[i] : i \in 1..Len(seq)}

\* a slip: art.get('url') or art.get('title', ''), an empty url counting
\* as no url
IdentityKey_Truthy(art) ==
  IF art.url # None /\ art.url.some # "" THEN art.url.some
  ELSE GetOr(art.title, "")

\* art.get('url', art.get('title', ''))
IdentityKey(art) ==
  IF art.url # None THEN art.url.some ELSE GetOr(art.title, "")

\* the keys of {IdentityKey(art): art for art in arts}, in insertion order
DictKeys(arts) ==
  LET firsts == SortedSeq({i \in 1..Len(arts) :
                   \A j \in 1..(i - 1) :
                     IdentityKey(arts[j]) # IdentityKey(arts[i])})
  IN [n \in 1..Len(firsts) |-> IdentityKey(arts[firsts[n]])]

\* a slip: setdefault, the first article inserted under k kept
DictGet_First(arts, k) ==
  arts[Min({i \in 1..Len(arts) : IdentityKey(arts[i]) = k})]

\* the value of that dict at key k: the last article inserted under k
DictGet(arts, k) ==
  arts[Max({i \in 1..Len(arts) : IdentityKey(arts[i]) = k})]

\* a slip: the two content versions exchanged
DiffObj_Swapped(prev_art, curr_art) ==
  [title |-> curr_art.title, url |-> curr_art.url,
   previous_content |-> curr_art.content,
   current_content |-> prev_art.content]

\* the diff object of a changed article
DiffObj(prev_art, curr_art) ==
  [title |-> curr_art.title, url |-> curr_art.url,
   previous_content |-> prev_art.content,
   current_content |-> curr_art.content]

\* a slip: the second loop tests the map it iterates over
CompareArticles_RemovedSelf(prev_articles, curr_articles) ==
  LET prev_keys == DictKeys(prev_articles)
      curr_keys == DictKeys(curr_articles)
      IsNew(k) == k \notin Range(prev_keys)
      IsChanged(k) ==
        /\ k \in Range(prev_keys)
        /\ DictGet(curr_articles, k).content # DictGet(prev_articles, k).content
      IsRemoved(k) == k \notin Range(prev_keys)
      newk == SelectSeq(curr_keys, IsNew)
      chgk == SelectSeq(curr_keys, IsChanged)
      remk == SelectSeq(prev_keys, IsRemoved)
  IN [new_articles |-> [i \in 1..Len(newk) |-> DictGet(curr_articles, newk[i])],
      changed_articles |->
        [i \in 1..Len(chgk) |-> DiffObj(DictGet(prev_articles, chgk[i]),
                                        DictGet(curr_articles, chgk[i]))],
      removed_articles |-> [i \in 1..Len(remk) |-> DictGet(prev_articles, remk[i])]]

\* the two loops of _compare_versions over the two article lists
CompareArticles(prev_articles, curr_articles) ==
  LET prev_keys == DictKeys(prev_articles)
      curr_keys == DictKeys(curr_articles)
      IsNew(k) == k \notin Range(prev_keys)
      IsChanged(k) ==
        /\ k \in Range(prev_keys)
        /\ DictGet(curr_articles, k).content # DictGet(prev_articles, k).content
      IsRemoved(k) == k \notin Range(curr_keys)
      newk == SelectSeq(curr_keys, IsNew)
      chgk == SelectSeq(curr_keys, IsChanged)
      remk == SelectSeq(prev_keys, IsRemoved)
  IN [new_articles |-> [i \in 1..Len(newk) |-> DictGet(curr_articles, newk[i])],
      changed_articles |->
        [i \in 1..Len(chgk) |-> DiffObj(DictGet(prev_articles, chgk[i]),
                                        DictGet(curr_articles, chgk[i]))],
      removed_articles |-> [i \in 1..Len(remk) |-> DictGet(prev_articles, remk[i])]]

\* a slip: the removed articles left out of has_changes
CompareHasChanges_NoRemoved(c) ==
  \/ Len(c.new_articles) > 0
  \/ Len(c.changed_articles) > 0

\* the has_changes expression of _compare_versions
CompareHasChanges(c) ==
  \/ Len(c.new_articles) > 0
  \/ Len(c.changed_articles) > 0
  \/ Len(c.removed_articles) > 0

\* _compare_versions(previous_content, current_content, url, domain,
\*                   previous_date, current_date_str)
CompareVersions(previous_content, current_content, url, domain, previous_date, current_date_str) ==
  The({ [url |-> url, domain |-> domain, current_date |-> current_date_str,
         previous_date |-> previous_date,
         has_changes |-> CompareHasChanges(c),
         new_articles |-> c.new_articles,
         changed_articles |-> c.changed_articles,
         removed_articles |-> c.removed_articles] :
        c \in {The({CompareArticles(prev_articles, curr_articles) :
                      prev_articles \in {ExtractArticlesOf(previous_content)},
                      curr_articles \in {ExtractArticlesOf(current_content)}})} })

(***************************************************************************)
(* BlogScraper: domains and the snapshot archive                           *)
(***************************************************************************)
\* a URL as urlparse splits it
Url(scheme, netloc, path) == [scheme |-> scheme, netloc |-> netloc, path |-> path]

\* validators.url(url): a scheme and a host are needed
ValidUrl(url) == url.scheme \in {"http", "https"} /\ url.netloc # ""

\* stop_after_attempt(3)
MaxAttempts == 3

\* the exceptions session.get and raise_for_status raise
RequestErrors == {"Timeout", "ConnectionError", "HTTPError"}

\* re.sub(r'^www\.', '', netloc)
StripWww(netloc) ==
  IF Len(netloc) >= 4 /\ SubSeq(netloc, 1, 4) = "www."
  THEN SubSeq(netloc, 5, Len(netloc))
  ELSE netloc

\* get_domain(url)
GetDomain(url) == StripWww(url.netloc)

\* the dates d for which data/archive/{domain}/{d}.html exists
Files(arch, domain) == {d \in DOMAIN arch[domain] : arch[domain][d] # None}

\* files.sort(reverse=True)
SortReverse(S) ==
  [i \in 1..Cardinality(S) |->
     CHOOSE x \in S : Cardinality({y \in S : y > x}) = i - 1]

\* save_content(url, content, date_str): the archive afterwards
SaveContent(arch, url, content, date_str) ==
  [arch EXCEPT ![GetDomain(url)][date_str] = Some(content)]

\* get_previous_content(url): (content, date) or (None, None)
GetPreviousContent(arch, url) ==
  LET domain == GetDomain(url)
      files == SortReverse(Files(arch, domain))
      previous_file == IF Len(files) > 1 THEN files[2] ELSE files[1]
  IN IF Len(files) = 0 THEN [content |-> None, date |-> None]
     ELSE [content |-> arch[domain][previous_file], date |-> Some(previous_file)]

(***************************************************************************)
(* DiffAnalyzer.generate_diff                                              *)
(***************************************************************************)
\* the diff result of the branch taken when there is no previous content
NoPreviousResult(url, domain, current_date_str, articles) ==
  [url |-> url, domain |-> domain, current_date |-> current_date_str,
   previous_date |-> None,
   has_changes |-> Len(articles) > 0,
   new_articles |-> articles,
   changed_articles |-> <<>>,
   removed_articles |-> <<>>]

\* a slip: the file opened with mode 'x', an existing record kept
SaveDiffResult_Exclusive(dfs, diff_result, domain, date_str) ==
  IF dfs[domain][date_str] # None THEN dfs
  ELSE [dfs EXCEPT ![domain][date_str] = Some(diff_result)]

\* _save_diff_result(diff_result, domain, date_str): the diff store afterwards
SaveDiffResult(dfs, diff_result, domain, date_str) ==
  [dfs EXCEPT ![domain][date_str] = Some(diff_result)]

\* a slip: the previous snapshot looked up before the current one is tested
GenerateDiff_LocateFirst(arch, dfs, url, current_date_str) ==
  LET domain == GetDomain(url)
      current == arch[domain][current_date_str]
  IN IF current = None
     THEN [ret |-> None, diffs |-> dfs, calls |-> {"get_previous_content"}]
     ELSE The({ [ret |-> Some(diff_result),
                 diffs |-> SaveDiffResult(dfs, diff_result, domain,
                                          current_date_str),
                 calls |-> {"get_previous_content", "_extract_articles",
                            "_save_diff_result"}] :
                diff_result \in
                  {The({ IF prev.content = None
                         THEN NoPreviousResult(url, domain, current_date_str,
                                ExtractArticlesOf(current.some))
                         ELSE CompareVersions(prev.content.some, current.some,
                                url, domain, prev.date, current_date_str) :
                         prev \in {GetPreviousContent(arch, url)} })} })

\* generate_diff(url, current_date_str) run on archive arch and diff store
\* dfs: the value returned, the diff store afterwards and the collaborators
\* the call invoked
GenerateDiff(arch, dfs, url, current_date_str) ==
  LET domain == GetDomain(url)
      current == arch[domain][current_date_str]
  IN IF current = None
     THEN [ret |-> None, diffs |-> dfs, calls |-> {}]
     ELSE The({ [ret |-> Some(diff_result),
                 diffs |-> SaveDiffResult(dfs, diff_result, domain,
                                          current_date_str),
                 calls |-> {"get_previous_content", "_extract_articles",
                            "_save_diff_result"}] :
                diff_result \in
                  {The({ IF prev.content = None
                         THEN NoPreviousResult(url, domain, current_date_str,
                                ExtractArticlesOf(current.some))
                         ELSE CompareVersions(prev.content.some, current.some,
                                url, domain, prev.date, current_date_str) :
                         prev \in {GetPreviousContent(arch, url)} })} })

(***************************************************************************)
(* Bounds and inputs                                                       *)
(***************************************************************************)
\* the days on which the program may run
MaxDate == 2

\* the number of fragments a page given to the extractor is made of
MaxFrags == 3

\* the length of the article lists given to the comparator
MaxArts == 2

\* the number of diff results given to the newsletter generator
MaxDiffs == 2

Dates == 1..MaxDate

\* the articles the comparator is tried on
CmpArticles ==
  { Article(Some("a"), None, None, Some("x")),
    Article(Some("a"), None, None, Some("y")),
    Article(Some("a"), None, None, None),
    Article(Some("b"), Some("a"), None, Some("x")),
    Article(Some("b"), Some(""), None, Some("y")),
    Article(Some("a"), Some(""), None, None),
    Article(Some("b"), None, None, Some("x")) }

\* the sequences over S of length at most n
RECURSIVE SeqsOf(_, _)
SeqsOf(S, n) ==
  IF n = 0 THEN {<<>>}
  ELSE SeqsOf(S, n - 1) \cup
       {Append(q, x) : q \in SeqsOf(S, n - 1), x \in S}

\* data/blogs.json
Blogs ==
  << [url |-> Url("https", "www.x.test", "/a"), name |-> "A",
      category |-> Some("tech")],
     [url |-> Url("https", "x.test", "/b"), name |-> "B", category |-> None] >>

BlogUrls == {Blogs[i].url : i \in 1..Len(Blogs)}

Domains == {GetDomain(u) : u \in BlogUrls}

(***************************************************************************)
(* State                                                                   *)
(***************************************************************************)
VARIABLES
  today,         \* the day datetime.now() falls on
  archive,       \* data/archive/{domain}/{date}.html: None or Some(page)
  diffs,         \* data/diffs/{domain}/{date}.json: None or Some(diff result)
  newsletters,   \* output/newsletters/{date}.md: None or Some(diffs given)
  pc,            \* where main() is: idle, scrape, save, diff, collect, newsletter
  current_date,  \* main's current_date
  idx,           \* the position of main's for loop in Blogs
  html_content,  \* main's html_content
  diff_result,   \* main's diff_result: None or Some(diff result)
  all_diffs,     \* main's all_diffs
  trace,         \* the last operation performed and what it returned
  archive0,      \* the archive when the current run of main started
  scraped,       \* what scrape returned for each blog of the current run
  outcomes,      \* how the loop body ended for each blog of the current run
  phase,         \* the pure-function specifications: "in" before, "out" after
  ext_in,        \* the page given to _extract_articles
  ext_out,       \* the articles it returned
  cmp_prev,      \* the previous article list given to the comparator
  cmp_curr,      \* the current article list given to the comparator
  cmp_out,       \* the three lists it returned
  sc_url,        \* the url given to scrape
  sc_pc,         \* scrape: "attempt", "failed", "returned" or "raised"
  sc_log,        \* what each attempt of the call ended with
  sc_requests,   \* the number of HTTP requests the call made
  sc_result,     \* what reached the caller: None before the call ended
  ng_key,        \* NewsletterGenerator: is OPENAI_API_KEY set
  ng_diffs,      \* the diff_results given to generate
  ng_pc,         \* generate: "generate", "section", "compile" or "done"
  ng_i,          \* the position of generate's loop over the categories
  ng_log,        \* the API calls made: category and how each ended
  ng_sections,   \* generate's sections
  ng_result      \* what reached the caller of generate: None before it ended

vars ==
  << today, archive, diffs, newsletters, pc, current_date, idx, html_content,
     diff_result, all_diffs, trace, archive0, scraped, outcomes,
     phase, ext_in, ext_out, cmp_prev, cmp_curr, cmp_out,
     sc_url, sc_pc, sc_log, sc_requests, sc_result,
     ng_key, ng_diffs, ng_pc, ng_i, ng_log, ng_sections, ng_result >>

pipeVars ==
  << today, archive, diffs, newsletters, pc, current_date, idx, html_content,
     diff_result, all_diffs, trace, archive0, scraped, outcomes >>

scrapeVars == << sc_url, sc_pc, sc_log, sc_requests, sc_result >>

nlVars ==
  << ng_key, ng_diffs, ng_pc, ng_i, ng_log, ng_sections, ng_result >>

pureVars ==
  << phase, ext_in, ext_out, cmp_prev, cmp_curr, cmp_out,
     sc_url, sc_pc, sc_log, sc_requests, sc_result,
     ng_key, ng_diffs, ng_pc, ng_i, ng_log, ng_sections, ng_result >>

NoFiles == [dom \in Domains |-> [d \in Dates |-> None]]

\* the state before anything ran
PipeInit ==
  /\ today = 1
  /\ archive = NoFiles
  /\ diffs = NoFiles
  /\ newsletters = [d \in Dates |-> None]
  /\ pc = "idle"
  /\ current_date = 0
  /\ idx = 0
  /\ html_content = None
  /\ diff_result = None
  /\ all_diffs = <<>>
  /\ trace = [op |-> "init"]
  /\ archive0 = NoFiles
  /\ scraped = <<>>
  /\ outcomes = <<>>

\* no call of NewsletterGenerator.generate under way
NlIdle ==
  /\ ng_key = FALSE
  /\ ng_diffs = <<>>
  /\ ng_pc = "done"
  /\ ng_i = 0
  /\ ng_log = <<>>
  /\ ng_sections = <<>>
  /\ ng_result = None

\* no call of scrape under way
ScrapeIdle ==
  /\ sc_url = Blogs[1].url
  /\ sc_pc = "returned"
  /\ sc_log = <<>>
  /\ sc_requests = 0
  /\ sc_result = None

PureIdle ==
  /\ ScrapeIdle
  /\ NlIdle
  /\ phase = "in"
  /\ ext_in = <<>>
  /\ ext_out = <<>>
  /\ cmp_prev = <<>>
  /\ cmp_curr = <<>>
  /\ cmp_out = CompareArticles(<<>>, <<>>)

Init == PipeInit /\ PureIdle

(***************************************************************************)
(* main                                                                    *)
(***************************************************************************)
\* the loop body for blog idx ended in the way how, generate_diff having
\* returned ret when it was reached and did not raise
Ended(how, ret) ==
  Append(outcomes, [blog |-> Blogs[idx].name, how |-> how, ret |-> ret])

\* a slip: break instead of continue, the loop left after the body ended
AfterBlog_Break == "newsletter"

\* the position of main after the loop body for blog idx ended
AfterBlog == IF idx < Len(Blogs) THEN "scrape" ELSE "newsletter"

\* a day passes between two runs
Tick ==
  /\ pc = "idle"
  /\ today < MaxDate
  /\ today' = today + 1
  /\ trace' = [op |-> "tick"]
  /\ UNCHANGED << archive, diffs, newsletters, pc, current_date, idx,
                  html_content, diff_result, all_diffs, archive0, scraped,
                  outcomes >>
  /\ UNCHANGED pureVars

\* main up to the for loop; the program is run once a day
MainStart ==
  /\ pc = "idle"
  /\ current_date < today
  /\ current_date' = today
  /\ all_diffs' = <<>>
  /\ idx' = 1
  /\ pc' = IF Len(Blogs) > 0 THEN "scrape" ELSE "newsletter"
  /\ html_content' = None
  /\ diff_result' = None
  /\ archive0' = archive
  /\ scraped' = <<>>
  /\ outcomes' = <<>>
  /\ trace' = [op |-> "main"]
  /\ UNCHANGED << today, archive, diffs, newsletters >>
  /\ UNCHANGED pureVars

\* html_content = scraper.scrape(url): a page, or an exception that the
\* loop's except clause turns into continue
MainScrape ==
  /\ pc = "scrape"
  /\ \/ \E page \in SitePages :
          /\ html_content' = Some(page)
          /\ scraped' = Append(scraped, Some(page))
          /\ pc' = "save"
          /\ idx' = idx
          /\ outcomes' = outcomes
          /\ trace' = [op |-> "scrape", url |-> Blogs[idx].url, ok |-> TRUE]
     \/ /\ html_content' = html_content
        /\ scraped' = Append(scraped, None)
        /\ pc' = AfterBlog
        /\ idx' = idx + 1
        /\ outcomes' = Ended("scrape_error", None)
        /\ trace' = [op |-> "scrape", url |-> Blogs[idx].url, ok |-> FALSE]
  /\ UNCHANGED << today, archive, diffs, newsletters, current_date,
                  diff_result, all_diffs, archive0 >>
  /\ UNCHANGED pureVars

\* scraper.save_content(url, html_content, current_date): the snapshot is
\* written, or the directory or the file cannot be created and the loop's
\* except clause turns the error into continue
MainSave ==
  /\ pc = "save"
  /\ \/ /\ archive' = SaveContent(archive, Blogs[idx].url, html_content.some,
                                  current_date)
        /\ pc' = "diff"
        /\ idx' = idx
        /\ outcomes' = outcomes
        /\ trace' = [op |-> "save_content", url |-> Blogs[idx].url,
                     date |-> current_date, ok |-> TRUE]
     \/ /\ archive' = archive
        /\ pc' = AfterBlog
        /\ idx' = idx + 1
        /\ outcomes' = Ended("save_error", None)
        /\ trace' = [op |-> "save_content", url |-> Blogs[idx].url,
                     date |-> current_date, ok |-> FALSE]
  /\ UNCHANGED << today, diffs, newsletters, current_date, html_content,
                  diff_result, all_diffs, archive0, scraped >>
  /\ UNCHANGED pureVars

\* what a call of generate_diff leaves in trace
DiffTrace(url, date, g) ==
  [op |-> "generate_diff", url |-> url, date |-> date, ret |-> g.ret,
   calls |-> g.calls]

\* diff_result = diff_analyzer.generate_diff(url, current_date): the call
\* returns, or it raises before anything is written (a file that cannot be
\* read or created) and the loop's except clause turns that into continue
MainDiff ==
  /\ pc = "diff"
  /\ \/ /\ \E g \in {GenerateDiff(archive, diffs, Blogs[idx].url,
                                   current_date)} :
             /\ diffs' = g.diffs
             /\ diff_result' = g.ret
             /\ trace' = DiffTrace(Blogs[idx].url, current_date, g)
        /\ pc' = "collect"
        /\ idx' = idx
        /\ outcomes' = outcomes
     \/ /\ diffs' = diffs
        /\ diff_result' = diff_result
        /\ trace' = [op |-> "generate_diff_raised", url |-> Blogs[idx].url,
                     date |-> current_date]
        /\ pc' = AfterBlog
        /\ idx' = idx + 1
        /\ outcomes' = Ended("diff_error", None)
  /\ UNCHANGED << today, archive, newsletters, current_date,
                  html_content, all_diffs, archive0, scraped >>
  /\ UNCHANGED pureVars

\* blog.get('category', 'general')
CategoryOf(blog) == GetOr(blog.category, "general")

\* a slip: the blog's name stored under 'domain' instead of 'blog_name'
WithBlogMetadata_Domain(r, blog) ==
  [blog_name |-> blog.name, blog_url |-> blog.url,
   category |-> CategoryOf(blog)] @@ [r EXCEPT !.domain = blog.name]

\* the three assignments main makes to a diff result
WithBlogMetadata(r, blog) ==
  [blog_name |-> blog.name, blog_url |-> blog.url,
   category |-> CategoryOf(blog)] @@ r

\* a slip: every result collected, changes or not
HasChanges_AnyResult(r) == r # None

\* diff_result and diff_result.get('has_changes', False)
HasChanges(r) == r # None /\ r.some.has_changes

\* the if statement after generate_diff, and the end of the loop body
MainCollect ==
  /\ pc = "collect"
  /\ all_diffs' =
       IF HasChanges(diff_result)
       THEN Append(all_diffs, WithBlogMetadata(diff_result.some, Blogs[idx]))
       ELSE all_diffs
  /\ outcomes' =
       Ended(IF HasChanges(diff_result) THEN "collected"
             ELSE IF diff_result = None THEN "no_result"
             ELSE "unchanged", diff_result)
  /\ pc' = AfterBlog
  /\ idx' = idx + 1
  /\ trace' = [op |-> "collect"]
  /\ UNCHANGED << today, archive, diffs, newsletters, current_date,
                  html_content, diff_result, archive0, scraped >>
  /\ UNCHANGED pureVars

\* main after the for loop, up to its return: the newsletter is written when
\* there is a diff to report, and the locals of main are gone afterwards
MainNewsletter ==
  /\ pc = "newsletter"
  /\ newsletters' =
       IF Len(all_diffs) > 0
       THEN [newsletters EXCEPT ![current_date] = Some(all_diffs)]
       ELSE newsletters
  /\ pc' = "idle"
  /\ idx' = 0
  /\ html_content' = None
  /\ diff_result' = None
  /\ all_diffs' = <<>>
  /\ scraped' = <<>>
  /\ outcomes' = <<>>
  /\ archive0' = archive
  /\ trace' = [op |-> "newsletter"]
  /\ UNCHANGED << today, archive, diffs, current_date >>
  /\ UNCHANGED pureVars

\* a caller other than main calls generate_diff(url, date)
CallGenerateDiff ==
  /\ pc = "idle"
  /\ \E url \in BlogUrls, date \in Dates :
       \E g \in {GenerateDiff(archive, diffs, url, date)} :
         /\ diffs' = g.diffs
         /\ trace' = DiffTrace(url, date, g)
  /\ UNCHANGED << today, archive, newsletters, pc, current_date, idx,
                  html_content, diff_result, all_diffs, archive0, scraped,
                  outcomes >>
  /\ UNCHANGED pureVars

Next ==
  \/ Tick
  \/ MainStart
  \/ MainScrape
  \/ MainSave
  \/ MainDiff
  \/ MainCollect
  \/ MainNewsletter
  \/ CallGenerateDiff

Spec == Init /\ [][Next]_vars

\* a run of main that has started goes on: each statement of the loop and
\* the newsletter step are eventually executed
MainFairness ==
  /\ WF_vars(MainScrape)
  /\ WF_vars(MainSave)
  /\ WF_vars(MainDiff)
  /\ WF_vars(MainCollect)
  /\ WF_vars(MainNewsletter)

\* the runs of main alone, one a day
NextMain ==
  \/ Tick
  \/ MainStart
  \/ MainScrape
  \/ MainSave
  \/ MainDiff
  \/ MainCollect
  \/ MainNewsletter

SpecLive == Init /\ [][NextMain]_vars /\ MainFairness

(***************************************************************************)
(* The extractor and the comparator on their own                           *)
(***************************************************************************)
InitExt ==
  /\ PipeInit
  /\ ScrapeIdle
  /\ NlIdle
  /\ phase = "in"
  /\ ext_in \in PagesOf(MaxFrags)
  /\ ext_out = <<>>
  /\ cmp_prev = <<>>
  /\ cmp_curr = <<>>
  /\ cmp_out = CompareArticles(<<>>, <<>>)

\* articles = self._extract_articles(html_content)
Extract ==
  /\ phase = "in"
  /\ ext_out' = ExtractArticles(ext_in)
  /\ phase' = "out"
  /\ UNCHANGED << ext_in, cmp_prev, cmp_curr, cmp_out >>
  /\ UNCHANGED scrapeVars
  /\ UNCHANGED nlVars
  /\ UNCHANGED pipeVars

SpecExt == InitExt /\ [][Extract]_vars

\* the extractor on pages of headings
InitHead ==
  /\ PipeInit
  /\ ScrapeIdle
  /\ NlIdle
  /\ phase = "in"
  /\ ext_in \in HeadingPagesOf(MaxFrags)
  /\ ext_out = <<>>
  /\ cmp_prev = <<>>
  /\ cmp_curr = <<>>
  /\ cmp_out = CompareArticles(<<>>, <<>>)

SpecHead == InitHead /\ [][Extract]_vars

InitCmp ==
  /\ PipeInit
  /\ ScrapeIdle
  /\ NlIdle
  /\ phase = "in"
  /\ ext_in = <<>>
  /\ ext_out = <<>>
  /\ cmp_prev \in SeqsOf(CmpArticles, MaxArts)
  /\ cmp_curr \in SeqsOf(CmpArticles, MaxArts)
  /\ cmp_out = CompareArticles(<<>>, <<>>)

\* the comparison of _compare_versions on the two article lists
Compare ==
  /\ phase = "in"
  /\ cmp_out' = CompareArticles(cmp_prev, cmp_curr)
  /\ phase' = "out"
  /\ UNCHANGED << ext_in, ext_out, cmp_prev, cmp_curr >>
  /\ UNCHANGED scrapeVars
  /\ UNCHANGED nlVars
  /\ UNCHANGED pipeVars

SpecCmp == InitCmp /\ [][Compare]_vars

(***************************************************************************)
(* BlogScraper.scrape under its retry decorator                            *)
(***************************************************************************)
\* the urls scrape is called with: those of the blogs, one without scheme
\* and one without host
ScrapeUrls ==
  BlogUrls \cup {Url("", "", "x.test/a"), Url("https", "", "/a")}

\* what reaches the caller of scrape
Returned(page) == Some([kind |-> "return", value |-> page, cause |-> ""])

Raised(exc, cause) == Some([kind |-> "raise", value |-> exc, cause |-> cause])

InitScrape ==
  /\ PipeInit
  /\ phase = "in"
  /\ ext_in = <<>>
  /\ ext_out = <<>>
  /\ cmp_prev = <<>>
  /\ cmp_curr = <<>>
  /\ cmp_out = CompareArticles(<<>>, <<>>)
  /\ sc_url \in ScrapeUrls
  /\ sc_pc = "attempt"
  /\ sc_log = <<>>
  /\ sc_requests = 0
  /\ sc_result = None
  /\ NlIdle

\* one execution of the body of scrape: the url is validated, then fetched
ScrapeAttempt ==
  /\ sc_pc = "attempt"
  /\ IF ~ValidUrl(sc_url)
     THEN /\ sc_log' = Append(sc_log, "ValueError")
          /\ sc_requests' = sc_requests
          /\ sc_pc' = "failed"
          /\ sc_result' = sc_result
     ELSE /\ sc_requests' = sc_requests + 1
          /\ \/ \E e \in RequestErrors :
                  /\ sc_log' = Append(sc_log, e)
                  /\ sc_pc' = "failed"
                  /\ sc_result' = sc_result
             \/ \E page \in SitePages :
                  /\ sc_log' = Append(sc_log, "ok")
                  /\ sc_pc' = "returned"
                  /\ sc_result' = Returned(page)
  /\ UNCHANGED << sc_url, phase, ext_in, ext_out, cmp_prev, cmp_curr, cmp_out >>
  /\ UNCHANGED nlVars
  /\ UNCHANGED pipeVars

\* the retry decorator after an attempt raised: every exception is retried,
\* and after the last attempt a RetryError wrapping it is raised
ScrapeRetry ==
  /\ sc_pc = "failed"
  /\ IF Len(sc_log) >= MaxAttempts
     THEN /\ sc_pc' = "raised"
          /\ sc_result' = Raised("RetryError", sc_log[Len(sc_log)])
     ELSE /\ sc_pc' = "attempt"
          /\ sc_result' = sc_result
  /\ UNCHANGED << sc_url, sc_log, sc_requests,
                  phase, ext_in, ext_out, cmp_prev, cmp_curr, cmp_out >>
  /\ UNCHANGED nlVars
  /\ UNCHANGED pipeVars

NextScrape == ScrapeAttempt \/ ScrapeRetry

SpecScrape == InitScrape /\ [][NextScrape]_vars

(***************************************************************************)
(* NewsletterGenerator.generate                                            *)
(***************************************************************************)
\* the diff results generate is called with, as far as it groups them: the
\* blog and the category, None when the key is missing
NlDiffs ==
  { [blog_name |-> "A", category |-> Some("tech")],
    [blog_name |-> "B", category |-> None],
    [blog_name |-> "C", category |-> Some("general")] }

\* how a call of client.chat.completions.create ends
ApiOutcomes == {"ok", "APITimeoutError", "APIConnectionError", "RateLimitError"}

\* retry_if_exception_type((APITimeoutError, APIConnectionError))
RetriedErrors == {"APITimeoutError", "APIConnectionError"}

\* str.capitalize() on the category names in use
Capitalize(c) ==
  CASE c = "" -> ""
    [] SubSeq(c, 1, 1) = "t" -> "T" \o SubSeq(c, 2, Len(c))
    [] SubSeq(c, 1, 1) = "g" -> "G" \o SubSeq(c, 2, Len(c))
    [] OTHER -> c

\* diff.get('category', 'general')
DiffCategory(diff) == GetOr(diff.category, "general")

\* _categorize_diffs(diff_results): the categories in the order of their
\* first diff, each with its diffs in order
CategorizeDiffs(diff_results) ==
  LET firsts == SortedSeq({i \in 1..Len(diff_results) :
                   \A j \in 1..(i - 1) :
                     DiffCategory(diff_results[j]) # DiffCategory(diff_results[i])})
      InCat(c) == LET Test(d) == DiffCategory(d) = c
                  IN SelectSeq(diff_results, Test)
  IN [n \in 1..Len(firsts) |->
        [category |-> DiffCategory(diff_results[firsts[n]]),
         diffs |-> InCat(DiffCategory(diff_results[firsts[n]]))]]

\* _generate_fallback_section(category, diffs)
FallbackSection(category, section_diffs) ==
  [category |-> category, title |-> Capitalize(category), content |-> "fallback"]

\* one execution of the body of _generate_category_section when the API
\* call ends with outcome: the section of the model, or, any exception being
\* caught inside the body, the fallback section; nothing is raised
SectionBody(category, section_diffs, outcome) ==
  IF outcome = "ok"
  THEN [kind |-> "return",
        value |-> [category |-> category, title |-> Capitalize(category),
                   content |-> "llm"]]
  ELSE [kind |-> "return", value |-> FallbackSection(category, section_diffs)]

InitNl ==
  /\ PipeInit
  /\ phase = "in"
  /\ ext_in = <<>>
  /\ ext_out = <<>>
  /\ cmp_prev = <<>>
  /\ cmp_curr = <<>>
  /\ cmp_out = CompareArticles(<<>>, <<>>)
  /\ ScrapeIdle
  /\ ng_key \in BOOLEAN
  /\ ng_diffs \in SeqsOf(NlDiffs, MaxDiffs)
  /\ ng_pc = "generate"
  /\ ng_i = 0
  /\ ng_log = <<>>
  /\ ng_sections = <<>>
  /\ ng_result = None

\* generate up to its loop: without API key the fallback newsletter is
\* returned at once
NlGenerate ==
  /\ ng_pc = "generate"
  /\ IF ~ng_key
     THEN /\ ng_pc' = "done"
          /\ ng_i' = ng_i
          /\ ng_result' = Some([kind |-> "fallback_newsletter"])
     ELSE /\ ng_pc' = IF Len(CategorizeDiffs(ng_diffs)) > 0 THEN "section"
                      ELSE "compile"
          /\ ng_i' = 1
          /\ ng_result' = ng_result
  /\ UNCHANGED << ng_key, ng_diffs, ng_log, ng_sections >>
  /\ UNCHANGED << phase, ext_in, ext_out, cmp_prev, cmp_curr, cmp_out >>
  /\ UNCHANGED scrapeVars
  /\ UNCHANGED pipeVars

\* the number of API calls made so far for the category of the loop
AttemptsFor(category) ==
  Cardinality({k \in 1..Len(ng_log) : ng_log[k].category = category})

\* section = self._generate_category_section(category, diffs) under its
\* retry decorator, one execution of the body: an exception of the retried
\* types leaving the body is retried up to three attempts, another one is
\* raised to generate, a returned section is appended
NlSection ==
  /\ ng_pc = "section"
  /\ \E outcome \in ApiOutcomes :
       \E cat \in {CategorizeDiffs(ng_diffs)[ng_i]} :
         \E body \in {SectionBody(cat.category, cat.diffs, outcome)} :
           /\ ng_log' = Append(ng_log, [category |-> cat.category,
                                        outcome |-> outcome])
           /\ IF body.kind = "return"
              THEN /\ ng_sections' = Append(ng_sections, body.value)
                   /\ ng_i' = ng_i + 1
                   /\ ng_pc' = IF ng_i < Len(CategorizeDiffs(ng_diffs))
                               THEN "section" ELSE "compile"
                   /\ ng_result' = ng_result
              ELSE IF /\ body.value \in RetriedErrors
                      /\ AttemptsFor(cat.category) + 1 < MaxAttempts
              THEN UNCHANGED << ng_sections, ng_i, ng_pc, ng_result >>
              ELSE /\ ng_pc' = "done"
                   /\ ng_result' = Some([kind |-> "raise"])
                   /\ UNCHANGED << ng_sections, ng_i >>
  /\ UNCHANGED << ng_key, ng_diffs >>
  /\ UNCHANGED << phase, ext_in, ext_out, cmp_prev, cmp_curr, cmp_out >>
  /\ UNCHANGED scrapeVars
  /\ UNCHANGED pipeVars

\* newsletter = self._compile_newsletter(sections, date_str); return
NlCompile ==
  /\ ng_pc = "compile"
  /\ ng_pc' = "done"
  /\ ng_result' = Some([kind |-> "newsletter", sections |-> ng_sections])
  /\ UNCHANGED << ng_key, ng_diffs, ng_i, ng_log, ng_sections >>
  /\ UNCHANGED << phase, ext_in, ext_out, cmp_prev, cmp_curr, cmp_out >>
  /\ UNCHANGED scrapeVars
  /\ UNCHANGED pipeVars

NextNl == NlGenerate \/ NlSection \/ NlCompile

SpecNl == InitNl /\ [][NextNl]_vars

(***************************************************************************)
(* Properties of generate_diff                                             *)
(***************************************************************************)
\* the state right after a call of generate_diff that returned a result
DiffReturned == trace.op = "generate_diff" /\ trace.ret # None

\* the snapshot dates of the blog of the last call
TraceFiles == Files(archive, GetDomain(trace.url))

\* C1: when the archive of the blog holds only the snapshot of the current
\* date, generate_diff returns every article extracted from the current
\* markup as new, no changed and no removed article, previous_date none, and
\* has_changes true iff there is such an article.
C1_FirstRunAllNew ==
  (DiffReturned /\ TraceFiles = {trace.date}) =>
    LET articles ==
          ExtractArticles(archive[GetDomain(trace.url)][trace.date].some)
        r == trace.ret.some
    IN /\ r.new_articles = articles
       /\ r.changed_articles = <<>>
       /\ r.removed_articles = <<>>
       /\ r.previous_date = None
       /\ r.has_changes = (Len(articles) > 0)

\* C2: the previous snapshot generate_diff uses is the most recent archived
\* snapshot strictly older than the current date, and none when no archived
\* snapshot is strictly older.
C2_PreviousStrictlyOlder ==
  DiffReturned =>
    LET older == {d \in TraceFiles : d < trace.date}
    IN trace.ret.some.previous_date =
         IF older = {} THEN None ELSE Some(Max(older))

\* every diff result the state holds: persisted, returned or collected
ResultsHeld ==
  {diffs[k[1]][k[2]].some :
     k \in {x \in Domains \X Dates : diffs[x[1]][x[2]] # None}}
  \cup (IF diff_result # None THEN {diff_result.some} ELSE {})
  \cup (IF DiffReturned THEN {trace.ret.some} ELSE {})

\* C4: in every diff result generate_diff returns, has_changes is true iff
\* at least one of new_articles, changed_articles, removed_articles is
\* non-empty.
C4_HasChangesIffAnyList ==
  \A r \in ResultsHeld :
    r.has_changes <=> \/ Len(r.new_articles) > 0
                      \/ Len(r.changed_articles) > 0
                      \/ Len(r.removed_articles) > 0

\* C4 witness: a diff between two different snapshots in both of which the
\* extractor finds nothing, returned with has_changes false.
C4_Witness ==
  /\ DiffReturned
  /\ LET r == trace.ret.some
     IN /\ r.previous_date # None
        /\ r.previous_date.some # r.current_date
        /\ ExtractArticles(archive[r.domain][r.current_date].some) = <<>>
        /\ ExtractArticles(archive[r.domain][r.previous_date.some].some) = <<>>
        /\ ~r.has_changes

\* C8: a call of generate_diff for a (domain, date) without snapshot returns
\* no result, writes no diff record, changes no snapshot and invokes neither
\* the previous-snapshot locator nor the extractor; a call for a date with a
\* snapshot returns a result.
C8_MissingSnapshotNoEffect ==
  [][ trace'.op = "generate_diff" =>
        LET missing == archive[GetDomain(trace'.url)][trace'.date] = None
        IN /\ missing <=> (trace'.ret = None)
           /\ missing => /\ diffs' = diffs
                         /\ archive' = archive
                         /\ trace'.calls = {} ]_vars

\* C8 witness: generate_diff has just signalled not-found.
C8_Witness == trace.op = "generate_diff" /\ trace.ret = None

(***************************************************************************)
(* Properties of the extractor                                             *)
(***************************************************************************)
\* C5: every article the extractor returns, from the structural pass or
\* from the heading fallback, has a title that is present and non-empty.
C5_TitlesNonEmpty ==
  phase = "out" =>
    \A i \in 1..Len(ext_out) :
      ext_out[i].title # None /\ Len(ext_out[i].title.some) > 0

\* C5 witness: the extractor returned articles for a page in which a
\* matched container or a heading has only whitespace as its title text.
C5_Witness ==
  /\ phase = "out"
  /\ Len(ext_out) > 0
  /\ \E e \in 1..Len(ext_in) :
       /\ \/ \E k \in 1..Len(article_selectors) :
               Matches(ext_in[e], article_selectors[k])
          \/ ext_in[e].tag \in HeadingTags
       /\ \E t \in Descendants(ext_in, e) :
            /\ \E sel \in TitleSel \cup {SelTag("a")} : Matches(ext_in[t], sel)
            /\ GetText(ext_in, t) # ""
            /\ Strip(GetText(ext_in, t)) = ""

(***************************************************************************)
(* Properties of the comparator                                            *)
(***************************************************************************)
\* the identity key as the data model states it: the url when the article
\* has one, the title otherwise
KeyOf(a) == IF a.url # None THEN a.url.some ELSE a.title.some

KeysOf(seq) == {KeyOf(seq[i]) : i \in 1..Len(seq)}

\* the last article of seq with key k
LastWithKey(seq, k) ==
  seq[CHOOSE i \in 1..Len(seq) :
        /\ KeyOf(seq[i]) = k
        /\ \A j \in (i + 1)..Len(seq) : KeyOf(seq[j]) # k]

\* C3: every key of current is in exactly one of new and changed, or in
\* neither exactly when its content equals the previous content for the
\* key; every key only in previous is in removed; no key is in two of the
\* three output lists.
C3_ComparatorTotality ==
  phase = "out" =>
    LET new == KeysOf(cmp_out.new_articles)
        chg == KeysOf(cmp_out.changed_articles)
        rem == KeysOf(cmp_out.removed_articles)
    IN /\ \A k \in KeysOf(cmp_curr) :
            /\ ~(k \in new /\ k \in chg)
            /\ (k \notin new /\ k \notin chg) <=>
                 /\ k \in KeysOf(cmp_prev)
                 /\ LastWithKey(cmp_curr, k).content =
                      LastWithKey(cmp_prev, k).content
       /\ \A k \in KeysOf(cmp_prev) \ KeysOf(cmp_curr) : k \in rem
       /\ new \cap chg = {}
       /\ new \cap rem = {}
       /\ chg \cap rem = {}

\* C3 witness: one comparison with a new, a changed and a removed article.
C3_Witness ==
  /\ phase = "out"
  /\ Len(cmp_out.new_articles) > 0
  /\ Len(cmp_out.changed_articles) > 0
  /\ Len(cmp_out.removed_articles) > 0

\* the number of records of seq whose key is k
CountKey(seq, k) == Cardinality({i \in 1..Len(seq) : KeyOf(seq[i]) = k})

\* C6: a key in both mappings whose content differs (a missing content
\* differing from any present one) has exactly one record in
\* changed_articles, with the title and url of the current article and both
\* contents; a key whose content is equal on both sides has no record in
\* any output list.
C6_ChangedRecords ==
  phase = "out" =>
    \A k \in KeysOf(cmp_curr) \cap KeysOf(cmp_prev) :
      LET c == LastWithKey(cmp_curr, k)
          p == LastWithKey(cmp_prev, k)
      IN IF c.content # p.content
         THEN /\ CountKey(cmp_out.changed_articles, k) = 1
              /\ \E i \in 1..Len(cmp_out.changed_articles) :
                   cmp_out.changed_articles[i] =
                     [title |-> c.title, url |-> c.url,
                      previous_content |-> p.content,
                      current_content |-> c.content]
         ELSE /\ CountKey(cmp_out.changed_articles, k) = 0
              /\ CountKey(cmp_out.new_articles, k) = 0
              /\ CountKey(cmp_out.removed_articles, k) = 0

\* C6 witness: one comparison with a key whose content is missing on one
\* side only, and a key whose content is missing on both sides.
C6_Witness ==
  /\ phase = "out"
  /\ \E k1, k2 \in KeysOf(cmp_curr) \cap KeysOf(cmp_prev) :
       /\ LastWithKey(cmp_curr, k1).content = None
       /\ LastWithKey(cmp_prev, k1).content # None
       /\ LastWithKey(cmp_curr, k2).content = None
       /\ LastWithKey(cmp_prev, k2).content = None
       /\ Len(cmp_out.changed_articles) = 1

\* C7: a current article is matched with a previous one iff their keys (url
\* when the article has a url, even an empty one, title otherwise) are equal
\* strings: it is new iff no previous article has its key, and a previous
\* article is removed iff no current article has its key.
C7_IdentityKey ==
  phase = "out" =>
    /\ \A i \in 1..Len(cmp_curr) :
         (cmp_curr[i] \in Range(cmp_out.new_articles))
           <=> /\ KeyOf(cmp_curr[i]) \notin KeysOf(cmp_prev)
               /\ cmp_curr[i] = LastWithKey(cmp_curr, KeyOf(cmp_curr[i]))
    /\ \A j \in 1..Len(cmp_prev) :
         (cmp_prev[j] \in Range(cmp_out.removed_articles))
           <=> /\ KeyOf(cmp_prev[j]) \notin KeysOf(cmp_curr)
               /\ cmp_prev[j] = LastWithKey(cmp_prev, KeyOf(cmp_prev[j]))

\* C7 witness: a previous article without url whose title is the url of a
\* current article, and a current article with an empty url, compared.
C7_Witness ==
  /\ phase = "out"
  /\ \E i \in 1..Len(cmp_curr), j \in 1..Len(cmp_prev) :
       /\ cmp_prev[j].url = None
       /\ cmp_curr[i].url = cmp_prev[j].title
       /\ cmp_curr[i].title # cmp_prev[j].title
       /\ cmp_curr[i] \notin Range(cmp_out.new_articles)
       /\ cmp_prev[j] \notin Range(cmp_out.removed_articles)
  /\ \E i \in 1..Len(cmp_curr) :
       /\ cmp_curr[i].url = Some("")
       /\ cmp_curr[i] \in Range(cmp_out.new_articles)

(***************************************************************************)
(* Properties of main                                                      *)
(***************************************************************************)
\* the fields generate_diff gives a diff result
ResultFields ==
  {"url", "domain", "current_date", "previous_date", "has_changes",
   "new_articles", "changed_articles", "removed_articles"}

\* the fields main adds to a diff result it collects
MetadataFields == {"blog_name", "blog_url", "category"}

AloneArchive(i) ==
  SaveContent(archive0, Blogs[i].url, scraped[i].some, current_date)

\* C10: when the loop of main has ended, every blog whose scrape succeeded
\* has the snapshot, the previous snapshot and the persisted diff result it
\* would have had if it had been the only blog processed in the run.
C10_BlogsIndependent ==
  pc = "newsletter" =>
    \A i \in 1..Len(Blogs) :
      scraped[i] # None =>
        LET url == Blogs[i].url
            dom == GetDomain(url)
        IN /\ archive[dom][current_date] = scraped[i]
           /\ GetPreviousContent(archive, url) =
                GetPreviousContent(AloneArchive(i), url)
           /\ diffs[dom][current_date] =
                GenerateDiff(AloneArchive(i), diffs, url, current_date).ret

(***************************************************************************)
(* Properties of the diff store                                            *)
(***************************************************************************)
\* C11: whenever generate_diff returns a result, the record stored under
\* (domain, current date) at that moment equals the returned result, whatever
\* was stored under that key before, and the records under every other
\* (domain, date) key are unchanged.
C11_PersistedEqualsReturned ==
  [][ (trace'.op = "generate_diff" /\ trace'.ret # None) =>
        /\ diffs'[GetDomain(trace'.url)][trace'.date] = trace'.ret
        /\ trace'.ret.some.domain = GetDomain(trace'.url)
        /\ trace'.ret.some.current_date = trace'.date
        /\ \A k \in Domains \X Dates :
             k # <<GetDomain(trace'.url), trace'.date>> =>
               diffs'[k[1]][k[2]] = diffs[k[1]][k[2]] ]_vars

\* C11 witness: in one run the result returned for the second blog replaced
\* the record the first blog had stored under the same key, while a record
\* of another date is stored.
C11_Witness ==
  /\ pc = "collect"
  /\ idx = 2
  /\ scraped[1] # None
  /\ DiffReturned
  /\ GetDomain(Blogs[1].url) = GetDomain(Blogs[2].url)
  /\ diffs[GetDomain(trace.url)][current_date] = trace.ret
  /\ trace.ret.some.url = Blogs[2].url
  /\ \E d \in Dates \ {current_date} : diffs[GetDomain(trace.url)][d] # None

(***************************************************************************)
(* Properties of the structural pass and of per-element extraction         *)
(***************************************************************************)
\* the positions in article_selectors of the patterns whose matched elements
\* yield at least one article with a non-empty title
Yielding(d) ==
  {k \in 1..Len(article_selectors) :
     \E e \in SelectAll(d, {article_selectors[k]}) :
       LET a == ExtractArticleData(d, e)
       IN a.title # None /\ a.title.some # ""}

\* the titled articles of the elements matching pattern k, in document order
TitledOf(d, k) ==
  LET els == SortedSeq({e \in SelectAll(d, {article_selectors[k]}) :
                          LET a == ExtractArticleData(d, e)
                          IN a.title # None /\ a.title.some # ""})
  IN [n \in 1..Len(els) |-> ExtractArticleData(d, els[n])]

\* C12: the patterns are tried in their fixed order and, when some pattern
\* yields a titled article, the result is that of exactly one pattern, the
\* first such one: patterns before it that match elements contribute
\* nothing, and no pattern after it is evaluated or merged into the result.
C12_FirstYieldingPatternOnly ==
  (phase = "out" /\ Yielding(ext_in) # {}) =>
    /\ ext_out = TitledOf(ext_in, Min(Yielding(ext_in)))
    /\ SelectorsTried(ext_in, 1) =
         [k \in 1..Min(Yielding(ext_in)) |-> k]

\* C12 witness: an earlier pattern matched an element without yielding a
\* titled article, a later pattern was accepted, and a pattern after it
\* would have yielded a different article.
C12_Witness ==
  /\ phase = "out"
  /\ Yielding(ext_in) # {}
  /\ \E j \in 1..(Min(Yielding(ext_in)) - 1) :
       SelectAll(ext_in, {article_selectors[j]}) # {}
  /\ \E k \in Yielding(ext_in) :
       \E i \in 1..Len(TitledOf(ext_in, k)) :
         \A n \in 1..Len(ext_out) : ext_out[n] # TitledOf(ext_in, k)[i]

(***************************************************************************)
(* Properties of per-heading extraction                                    *)
(***************************************************************************)
\* the headings the fallback turns into articles, in document order
FallbackHeadings(d) ==
  SortedSeq({j \in 1..Len(d) :
               d[j].tag \in HeadingTags /\ IsLikelyArticleTitle(d, j)})

\* the structural level of a heading tag, 0 for any other tag
Level(tag) ==
  CASE tag = "h1" -> 1 [] tag = "h2" -> 2 [] tag = "h3" -> 3
    [] tag = "h4" -> 4 [] tag = "h5" -> 5 [] tag = "h6" -> 6
    [] OTHER -> 0

\* the content made of the paragraphs among the following siblings of h
\* that come before the first sibling satisfying Stops; none when there is
\* no such paragraph
ContentUpTo(d, h, Stops(_)) ==
  LET sibs == NextSiblings(d, h)
      stop == {j \in sibs : Stops(j)}
      ps == SortedSeq({j \in sibs : /\ d[j].tag = "p"
                                    /\ \A s \in stop : j < s})
  IN IF Len(ps) = 0 THEN None
     ELSE Some(Join("\n", [n \in 1..Len(ps) |-> Strip(GetText(d, ps[n]))]))

\* C13 as stated: in per-heading extraction the content is the newline-joined
\* trimmed text of the paragraphs among the heading's following siblings up
\* to the next sibling heading of equal or higher level; a sibling heading of
\* lower level does not stop the collection.
C13_StopsAtEqualOrHigher ==
  (phase = "out" /\ Yielding(ext_in) = {}) =>
    \A n \in 1..Len(ext_out) :
      LET h == FallbackHeadings(ext_in)[n]
          Stops(j) == /\ Level(ext_in[j].tag) > 0
                      /\ Level(ext_in[j].tag) <= Level(ext_in[h].tag)
      IN ext_out[n].content = ContentUpTo(ext_in, h, Stops)

\* C13 amended: the collection stops at the next sibling heading h1 to h4,
\* whatever its level relative to the starting heading; the content is the
\* newline-joined trimmed text of the sibling paragraphs before it, and is
\* absent when there is none.
C13_StopsAtAnyHeading ==
  (phase = "out" /\ Yielding(ext_in) = {}) =>
    /\ Len(ext_out) = Len(FallbackHeadings(ext_in))
    /\ \A n \in 1..Len(ext_out) :
         LET h == FallbackHeadings(ext_in)[n]
             Stops(j) == ext_in[j].tag \in {"h1", "h2", "h3", "h4"}
         IN ext_out[n].content = ContentUpTo(ext_in, h, Stops)

\* C13 witness: the fallback made an article of a heading that is followed
\* by a sibling heading of lower level and then by a sibling paragraph.
C13_Witness ==
  /\ phase = "out"
  /\ Yielding(ext_in) = {}
  /\ \E n \in 1..Len(ext_out) :
       LET h == FallbackHeadings(ext_in)[n]
       IN \E s, p \in NextSiblings(ext_in, h) :
            /\ s < p
            /\ Level(ext_in[s].tag) > Level(ext_in[h].tag)
            /\ ext_in[p].tag = "p"

(***************************************************************************)
(* Properties of per-element extraction                                    *)
(***************************************************************************)
\* the elements whose articles the structural pass returned, in document
\* order: those matching the first yielding pattern that give a title
AcceptedElems(d) ==
  SortedSeq({e \in SelectAll(d, {article_selectors[Min(Yielding(d))]}) :
               LET a == ExtractArticleData(d, e)
               IN a.title # None /\ a.title.some # ""})

\* the content, description and summary class selectors
ContentClassSel ==
  { SelClass("content"), SelClass("entry-content"), SelClass("description"),
    SelClass("summary") }

\* the paragraph elements inside e, in document order
ParagraphsIn(d, e) == SortedSeq({j \in Descendants(d, e) : d[j].tag = "p"})

\* C14: the content of an article extracted from a container is the trimmed
\* text of the first element in it matching a content, description or summary
\* class selector whenever there is one, even after a paragraph; when there
\* is none and the container has paragraphs, it is the text of the first
\* paragraph or of all paragraphs joined with newlines.
C14_ContentClassBeforeParagraph ==
  (phase = "out" /\ Yielding(ext_in) # {}) =>
    \A n \in 1..Len(ext_out) :
      LET e == AcceptedElems(ext_in)[n]
          c == SelectOne(ext_in, e, ContentClassSel)
          ps == ParagraphsIn(ext_in, e)
      IN /\ c # 0 => ext_out[n].content = Some(Strip(GetText(ext_in, c)))
         /\ (c = 0 /\ Len(ps) > 0) =>
              ext_out[n].content \in
                { Some(Strip(GetText(ext_in, ps[1]))),
                  Some(Join("\n", StrippedTexts(ext_in, ps))) }

(***************************************************************************)
(* Properties of the heading fallback                                      *)
(***************************************************************************)
\* the h1, h2 and h3 elements of d whose trimmed text has 10 to 200
\* characters and which contain a link or come before a paragraph, in
\* document order
QualifyingHeadings(d) ==
  SortedSeq({h \in 1..Len(d) :
     /\ d[h].tag \in {"h1", "h2", "h3"}
     /\ Len(Strip(GetText(d, h))) >= 10
     /\ Len(Strip(GetText(d, h))) <= 200
     /\ \/ \E a \in Descendants(d, h) : d[a].tag = "a"
        \/ \E p \in (h + 1)..Len(d) : d[p].tag = "p"})

\* C15: the heading fallback runs only when the structural pass yields no
\* article; when it runs, the output is, in document order, one article for
\* each h1, h2 or h3 element whose trimmed text has between 10 and 200
\* characters inclusive and which contains a link or is followed later in
\* the document by a paragraph, and no article for any other heading.
C15_HeadingFallback ==
  phase = "out" =>
    IF Yielding(ext_in) # {}
    THEN /\ Len(ext_out) = Len(AcceptedElems(ext_in))
         /\ \A n \in 1..Len(ext_out) :
              ext_out[n] = ExtractArticleData(ext_in, AcceptedElems(ext_in)[n])
    ELSE /\ Len(ext_out) = Len(QualifyingHeadings(ext_in))
         /\ \A n \in 1..Len(ext_out) :
              LET h == QualifyingHeadings(ext_in)[n]
              IN /\ ext_out[n].title = Some(Strip(GetText(ext_in, h)))
                 /\ ext_out[n].url =
                      IF Find(ext_in, h, "a") = 0 THEN None
                      ELSE ext_in[Find(ext_in, h, "a")].href

\* the h1, h2 and h3 elements of d that no article of out is titled after
Unused(d, out) ==
  {h \in 1..Len(d) :
     /\ d[h].tag \in {"h1", "h2", "h3"}
     /\ \A n \in 1..Len(out) : out[n].title # Some(Strip(GetText(d, h)))}

\* C15 witness: the fallback ran on a page with a heading of exactly 200
\* characters that became an article, a heading of 201 characters followed
\* by a paragraph that did not, and a heading of fitting length without link
\* or later paragraph that did not.
C15_Witness ==
  /\ phase = "out"
  /\ Yielding(ext_in) = {}
  /\ \E n \in 1..Len(ext_out) : Len(ext_out[n].title.some) = 200
  /\ \E h \in Unused(ext_in, ext_out) : Len(Strip(GetText(ext_in, h))) = 201
  /\ \E h \in Unused(ext_in, ext_out) :
       Len(Strip(GetText(ext_in, h))) \in 10..200

\* C15 witness of the other case: the structural pass yielded an article on
\* a page that has a heading fit for the fallback outside any container.
C15_WitnessSkipped ==
  /\ phase = "out"
  /\ Yielding(ext_in) # {}
  /\ \E n \in 1..Len(QualifyingHeadings(ext_in)) :
       ext_in[QualifyingHeadings(ext_in)[n]].parent = 0

\* the first link inside e whose trimmed text is not empty, 0 when none
FirstTextLink(d, e) ==
  First({a \in Descendants(d, e) :
           d[a].tag = "a" /\ Strip(GetText(d, a)) # ""})

\* the heading or title-class selector gives the container e no title:
\* nothing matches, or the trimmed text of the match is empty
NoSelectorTitle(d, e) ==
  \/ SelectOne(d, e, TitleSel) = 0
  \/ Strip(GetText(d, SelectOne(d, e, TitleSel))) = ""

\* C16: whenever the heading or title-class selector yields no title for a
\* container (no matching element, or one whose trimmed text is empty), the
\* title is the text of the first link in the container with non-empty
\* text and the url is that link's target, so a container that has such a
\* link yields an article with a non-empty title.
C16_LinkTitleFallback ==
  phase = "out" =>
    \A i \in 1..Len(SelectorsTried(ext_in, 1)) :
      \A e \in SelectAll(ext_in,
                 {article_selectors[SelectorsTried(ext_in, 1)[i]]}) :
        (NoSelectorTitle(ext_in, e) /\ FirstTextLink(ext_in, e) # 0) =>
          \E n \in 1..Len(ext_out) :
            /\ ext_out[n].title =
                 Some(Strip(GetText(ext_in, FirstTextLink(ext_in, e))))
            /\ ext_out[n].url = ext_in[FirstTextLink(ext_in, e)].href

(***************************************************************************)
(* Duplicate identity keys                                                 *)
(***************************************************************************)
\* the three output lists of the comparator, one after the other
AllRecords(out) ==
  out.new_articles \o out.changed_articles \o out.removed_articles

\* C17: when several articles of one snapshot share an identity key, only
\* the last of them in list order counts: the comparison for the key and
\* every emitted record (new, changed, removed) use that last article, and at
\* most one record is emitted per key.
C17_LastDuplicateWins ==
  phase = "out" =>
    /\ \A k \in KeysOf(cmp_curr) \cup KeysOf(cmp_prev) :
         CountKey(AllRecords(cmp_out), k) <= 1
    /\ \A i \in 1..Len(cmp_out.new_articles) :
         cmp_out.new_articles[i] =
           LastWithKey(cmp_curr, KeyOf(cmp_out.new_articles[i]))
    /\ \A i \in 1..Len(cmp_out.removed_articles) :
         cmp_out.removed_articles[i] =
           LastWithKey(cmp_prev, KeyOf(cmp_out.removed_articles[i]))
    /\ \A i \in 1..Len(cmp_out.changed_articles) :
         LET r == cmp_out.changed_articles[i]
         IN /\ r.title = LastWithKey(cmp_curr, KeyOf(r)).title
            /\ r.url = LastWithKey(cmp_curr, KeyOf(r)).url
            /\ r.current_content = LastWithKey(cmp_curr, KeyOf(r)).content
            /\ r.previous_content = LastWithKey(cmp_prev, KeyOf(r)).content
    /\ \A k \in KeysOf(cmp_curr) \cap KeysOf(cmp_prev) :
         (CountKey(cmp_out.changed_articles, k) = 1) <=>
           (LastWithKey(cmp_curr, k).content # LastWithKey(cmp_prev, k).content)

\* C17 witness: a key held by two current articles of different content and
\* by a previous article whose content is that of the first one; the
\* comparison emitted one changed record.
C17_Witness ==
  /\ phase = "out"
  /\ Len(cmp_curr) = 2
  /\ KeyOf(cmp_curr[1]) = KeyOf(cmp_curr[2])
  /\ cmp_curr[1].content # cmp_curr[2].content
  /\ \E j \in 1..Len(cmp_prev) :
       /\ KeyOf(cmp_prev[j]) = KeyOf(cmp_curr[1])
       /\ LastWithKey(cmp_prev, KeyOf(cmp_curr[1])).content = cmp_curr[1].content
  /\ Len(cmp_out.changed_articles) = 1

(***************************************************************************)
(* Properties of the orchestrating loop                                    *)
(***************************************************************************)
\* the ways a loop body ends without a diff result
Failures == {"scrape_error", "save_error", "diff_error", "no_result"}

\* C18: a failure while processing one blog (scrape error, save error,
\* missing snapshot, exception from generate_diff) is per-blog and not
\* fatal: every blog of the list is attempted exactly once in list order
\* whatever happened to the earlier ones, a failed blog contributes no entry
\* to the newsletter input, and the run reaches the newsletter step and
\* completes.
C18_FailuresNonFatal ==
  /\ [](pc \in {"scrape", "save", "diff", "collect"} =>
         /\ idx \in 1..Len(Blogs)
         /\ Len(outcomes) = idx - 1)
  /\ [](pc = "newsletter" =>
         /\ Len(outcomes) = Len(Blogs)
         /\ \A i \in 1..Len(Blogs) :
              /\ outcomes[i].blog = Blogs[i].name
              /\ outcomes[i].how \in Failures =>
                   \A n \in 1..Len(all_diffs) :
                     all_diffs[n].blog_name # Blogs[i].name)
  /\ [][ (pc \in {"scrape", "save", "diff", "collect"}) =>
           \/ pc' \in {"save", "diff", "collect"} /\ idx' = idx
           \/ /\ idx' = idx + 1
              /\ pc' = IF idx < Len(Blogs) THEN "scrape" ELSE "newsletter"
              /\ \/ all_diffs' = all_diffs
                 \/ outcomes'[idx].how \notin Failures ]_vars
  /\ (pc \in {"scrape", "save", "diff", "collect"} ~> pc = "newsletter")
  /\ (pc = "newsletter" ~> pc = "idle")

\* C18 witness: the loop ended after the first blog failed at the save and
\* the second one was collected.
C18_Witness ==
  /\ pc = "newsletter"
  /\ outcomes[1].how = "save_error"
  /\ outcomes[2].how = "collected"

\* the blogs of the current run whose generate_diff returned a result with
\* has_changes true, in the order of the list
WithChanges ==
  LET Changed(o) == o.how \notin Failures /\ o.ret.some.has_changes
  IN SelectSeq(outcomes, Changed)

\* C19: the list handed to the newsletter generator holds exactly the diff
\* results of the blogs whose generate_diff returned a result with
\* has_changes true, in blog-list order; the newsletter is generated and
\* written iff that list is not empty, and a run without changes writes no
\* newsletter file.
C19_NewsletterInput ==
  /\ [](pc = "newsletter" =>
         /\ Len(all_diffs) = Len(WithChanges)
         /\ \A n \in 1..Len(all_diffs) :
              /\ all_diffs[n].blog_name = WithChanges[n].blog
              /\ \A f \in ResultFields :
                   all_diffs[n][f] = WithChanges[n].ret.some[f])
  /\ [][ (pc = "newsletter") =>
           newsletters' =
             IF Len(all_diffs) > 0
             THEN [newsletters EXCEPT ![current_date] = Some(all_diffs)]
             ELSE newsletters ]_vars
  /\ [][ (pc # "newsletter") => newsletters' = newsletters ]_vars

\* C19 witness: a run without changes wrote no newsletter on the first day
\* and the run of the second day has just written one with a single entry.
C19_Witness ==
  /\ pc = "idle"
  /\ trace.op = "newsletter"
  /\ current_date = 2
  /\ newsletters[1] = None
  /\ newsletters[2] # None
  /\ Len(newsletters[2].some) = 1

(***************************************************************************)
(* Properties of scrape                                                    *)
(***************************************************************************)
\* C20: a call of scrape with an invalid url raises ValueError to the
\* caller and makes no HTTP request in any attempt; a call of scrape makes at
\* most 3 attempts before an error reaches the caller.
C20_InvalidUrlValueError ==
  /\ Len(sc_log) <= 3
  /\ ~ValidUrl(sc_url) => sc_requests = 0
  /\ (~ValidUrl(sc_url) /\ sc_result # None) =>
       /\ sc_result.some.kind = "raise"
       /\ sc_result.some.value = "ValueError"

(***************************************************************************)
(* Properties of the newsletter generator                                  *)
(***************************************************************************)
\* the API calls made for category c, in order
CallsFor(c) ==
  LET Test(e) == e.category = c
  IN SelectSeq(ng_log, Test)

\* C21: a call of the text-generation API that fails with a timeout or a
\* connection error is retried, up to 3 attempts in total, and the fallback
\* section of a category is produced only after the attempts are exhausted;
\* every category gets exactly one section and no API error leaves generate.
C21_TransientRetried ==
  /\ ng_result # None => ng_result.some.kind # "raise"
  /\ (ng_result # None /\ ng_result.some.kind = "newsletter") =>
       /\ Len(ng_result.some.sections) = Len(CategorizeDiffs(ng_diffs))
       /\ \A n \in 1..Len(ng_result.some.sections) :
            ng_result.some.sections[n].category =
              CategorizeDiffs(ng_diffs)[n].category
  /\ \A n \in 1..Len(ng_sections) :
       LET calls == CallsFor(ng_sections[n].category)
       IN /\ Len(calls) \in 1..3
          /\ \A k \in 1..(Len(calls) - 1) : calls[k].outcome \in RetriedErrors
          /\ calls[Len(calls)].outcome \in RetriedErrors => Len(calls) = 3

====
